---- MODULE Spec2Model ----
(***************************************************************************)
(* A model of the provider plugin protocol of Lib-CPIs:                    *)
(*   - lib_cpi/src/lib.rs           the data model, the validation helpers *)
(*   - lib_cpi/tests/integration.rs the MockExtension implementation       *)
(*   - lib_cpi_macros/src/lib.rs    the implementation that the            *)
(*                                  cpi_extension attribute generates      *)
(*                                                                         *)
(* Strings are TLA+ strings (sequences of characters): format!() is \o and *)
(* str::contains is a substring search.  A serde_json::Number keeps its    *)
(* three representations (PosInt(u64), NegInt(i64), Float(f64)); a 64-bit  *)
(* quantity is written as four 16-bit limbs, most significant first, so    *)
(* that the i64/u64 boundary is exact.                                     *)
(***************************************************************************)
EXTENDS Integers, Sequences, FiniteSets, TLC

VARIABLES
    registry,   \* ACTION_REGISTRY of the generated implementation
    params,     \* the argument map the host passes (HashMap<String, Value>)
    call,       \* the call the host has made and not yet consumed, or NoCall
    result,     \* what that call returned
    handler,    \* the provider handler that call ran, with its arguments
    threads,    \* the host threads that are inside a call, each with its locals
    lock,       \* the RwLock around ACTION_REGISTRY: its writer and its readers
    heap,       \* the heap allocations that hold extension instances
    host        \* the instance pointers get_extension has handed to the host

vars == <<registry, params, call, result, handler, threads, lock, heap, host>>

(***************************************************************************)
(* Bounds of the model.                                                    *)
(***************************************************************************)
MaxArgs == 2        \* keys in an argument map
MaxRequired == 2    \* names in the required list given to validate_params
MaxThreads == 3     \* host threads that call into the extension at once
MaxInstances == 3   \* instances the host holds at once

(***************************************************************************)
(* Rust's Option and Result.                                               *)
(***************************************************************************)
Some(v) == [some |-> TRUE, val |-> v]
None == [some |-> FALSE]
Ok(v) == [ok |-> TRUE, val |-> v]
Err(m) == [ok |-> FALSE, err |-> m]

\* a panic that unwinds out of the call instead of a returned value; every
\* `IF ~r.ok THEN` of a caller passes it on as `?` passes an Err on
Panic(m) == [ok |-> FALSE, err |-> m, panic |-> TRUE]

\* Ok(opt.unwrap()): Option::unwrap panics on None
unwrap(opt) ==
    IF opt.some THEN Ok(opt.val)
    ELSE Panic("called Option::unwrap() on a None value")

\* Rust values handed across a call, each tagged with its type: String,
\* i64 (64 bits as four limbs), bool, f64 (its 64 bits), () and Vec<String>
Str(s) == [str |-> s]
I64(bits) == [i64 |-> bits]
Bool(b) == [bool |-> b]
F64(bits) == [f64 |-> bits]
Unit == [unit |-> TRUE]
Vec(items) == [vec |-> items]

\* str::contains
Contains(h, n) ==
    \E i \in 1..(Len(h) - Len(n) + 1) : SubSeq(h, i, i + Len(n) - 1) = n

\* str::starts_with
StartsWith(h, n) == Len(n) <= Len(h) /\ SubSeq(h, 1, Len(n)) = n

(***************************************************************************)
(* serde_json::Value.  A Number is PosInt(u64), NegInt(i64) (always        *)
(* negative) or Float(f64) (always finite); bits are the 64 bits of the    *)
(* payload as limbs <<b63..48, b47..32, b31..16, b15..0>>.                 *)
(***************************************************************************)
JNull == [t |-> "Null"]
JBool(b) == [t |-> "Bool", b |-> b]
JString(s) == [t |-> "String", s |-> s]
JNumber(repr, bits) == [t |-> "Number", n |-> [repr |-> repr, bits |-> bits]]
JArray(items) == [t |-> "Array", items |-> items]
JObject(fields) == [t |-> "Object", fields |-> fields]

PosInt(bits) == JNumber("PosInt", bits)
NegInt(bits) == JNumber("NegInt", bits)
Float(bits) == JNumber("Float", bits)

\* Number::is_i64: PosInt(v) => v <= i64::MAX, NegInt(_) => true, Float(_) => false
is_i64(n) ==
    CASE n.repr = "PosInt" -> n.bits[1] < 32768
      [] n.repr = "NegInt" -> TRUE
      [] n.repr = "Float" -> FALSE

\* Number::as_i64: the same 64 bits read as an i64, when is_i64
as_i64(n) == IF is_i64(n) THEN Some(I64(n.bits)) ELSE None

\* Value::as_bool
as_bool(v) == IF v.t = "Bool" THEN Some(Bool(v.b)) ELSE None

\* HashMap::get
get(map, name) == IF name \in DOMAIN map THEN Some(map[name]) ELSE None

\* HashMap::contains_key
contains_key(map, name) == name \in DOMAIN map

(***************************************************************************)
(* Display of an i64 (format!("{}", count)): long division of the limbs.   *)
(***************************************************************************)
IsZero(bits) == bits = <<0, 0, 0, 0>>

\* quotient and remainder of a u64 by 10
DivMod10(bits) ==
    LET c1 == bits[1]
        c2 == (c1 % 10) * 65536 + bits[2]
        c3 == (c2 % 10) * 65536 + bits[3]
        c4 == (c3 % 10) * 65536 + bits[4]
    IN  [q |-> <<c1 \div 10, c2 \div 10, c3 \div 10, c4 \div 10>>, r |-> c4 % 10]

DigitChar(d) == SubSeq("0123456789", d + 1, d + 1)

RECURSIVE U64Digits(_)
U64Digits(bits) ==
    IF IsZero(bits) THEN ""
    ELSE LET dm == DivMod10(bits) IN U64Digits(dm.q) \o DigitChar(dm.r)

U64ToString(bits) == IF IsZero(bits) THEN "0" ELSE U64Digits(bits)

\* two's complement negation: the magnitude of a negative i64
Negate(bits) ==
    LET n4 == (65535 - bits[4]) + 1
        n3 == (65535 - bits[3]) + (n4 \div 65536)
        n2 == (65535 - bits[2]) + (n3 \div 65536)
        n1 == (65535 - bits[1]) + (n2 \div 65536)
    IN  <<n1 % 65536, n2 % 65536, n3 % 65536, n4 % 65536>>

I64ToString(bits) ==
    IF bits[1] >= 32768 THEN "-" \o U64ToString(Negate(bits))
    ELSE U64ToString(bits)

(***************************************************************************)
(* lib_cpi::validation                                                     *)
(***************************************************************************)
NotProvided(name) == "Required parameter '" \o name \o "' not provided"
MustBe(name, what) == "Parameter '" \o name \o "' must be " \o what

\* as extract_string, but a wrong-typed value is reported as an absent one
extract_string_conflating(map, name) ==
    LET v == get(map, name) IN
    IF v.some /\ v.val.t = "String" THEN Ok(Str(v.val.s))
    ELSE Err(NotProvided(name))

extract_string(map, name) ==
    LET v == get(map, name) IN
    IF v.some /\ v.val.t = "String" THEN Ok(Str(v.val.s))
    ELSE IF v.some THEN Err(MustBe(name, "a string"))
    ELSE Err(NotProvided(name))

\* as extract_string_opt, but a present string is dropped
extract_string_opt_dropping(map, name) ==
    LET v == get(map, name) IN
    IF v.some /\ v.val.t = "String" THEN Ok(None)
    ELSE IF v.some THEN Err(MustBe(name, "a string"))
    ELSE Ok(None)

extract_string_opt(map, name) ==
    LET v == get(map, name) IN
    IF v.some /\ v.val.t = "String" THEN Ok(Some(Str(v.val.s)))
    ELSE IF v.some THEN Err(MustBe(name, "a string"))
    ELSE Ok(None)

\* as extract_int, without the is_i64 guard
extract_int_unguarded(map, name) ==
    LET v == get(map, name) IN
    IF v.some /\ v.val.t = "Number" THEN Ok(I64(v.val.n.bits))
    ELSE IF v.some THEN Err(MustBe(name, "an integer"))
    ELSE Err(NotProvided(name))

extract_int(map, name) ==
    LET v == get(map, name) IN
    IF v.some /\ v.val.t = "Number" /\ is_i64(v.val.n) THEN unwrap(as_i64(v.val.n))
    ELSE IF v.some THEN Err(MustBe(name, "an integer"))
    ELSE Err(NotProvided(name))

\* as extract_int_opt, but absence yields a default of 0
extract_int_opt_defaulting(map, name) ==
    LET v == get(map, name) IN
    IF v.some /\ v.val.t = "Number" /\ is_i64(v.val.n) THEN Ok(Some(as_i64(v.val.n).val))
    ELSE IF v.some THEN Err(MustBe(name, "an integer"))
    ELSE Ok(Some(I64(<<0, 0, 0, 0>>)))

extract_int_opt(map, name) ==
    LET v == get(map, name) IN
    IF v.some /\ v.val.t = "Number" /\ is_i64(v.val.n)
    THEN LET n == unwrap(as_i64(v.val.n)) IN IF n.ok THEN Ok(Some(n.val)) ELSE n
    ELSE IF v.some THEN Err(MustBe(name, "an integer"))
    ELSE Ok(None)

(***************************************************************************)
(* Number::as_f64: the f64 nearest to the stored integer (`as f64` rounds  *)
(* to nearest, ties to even); a Float is returned as stored.               *)
(***************************************************************************)
TwoTo(k) == IF k = 0 THEN 1 ELSE IF k = 1 THEN 2 ELSE IF k = 2 THEN 4 ELSE IF k = 3 THEN 8
            ELSE IF k = 4 THEN 16 ELSE IF k = 5 THEN 32 ELSE IF k = 6 THEN 64
            ELSE IF k = 7 THEN 128 ELSE IF k = 8 THEN 256 ELSE IF k = 9 THEN 512
            ELSE IF k = 10 THEN 1024 ELSE IF k = 11 THEN 2048 ELSE IF k = 12 THEN 4096
            ELSE IF k = 13 THEN 8192 ELSE IF k = 14 THEN 16384 ELSE IF k = 15 THEN 32768
            ELSE 65536

\* the 64 bits of a limb tuple, most significant first, and back
ToBits(limbs) ==
    [i \in 1..64 |-> (limbs[((i - 1) \div 16) + 1] \div TwoTo(15 - ((i - 1) % 16))) % 2]

RECURSIVE BitsValue(_, _, _)
BitsValue(b, from, to) ==
    IF from > to THEN 0 ELSE b[to] + 2 * BitsValue(b, from, to - 1)

FromBits(b) ==
    <<BitsValue(b, 1, 16), BitsValue(b, 17, 32), BitsValue(b, 33, 48), BitsValue(b, 49, 64)>>

\* a bit sequence plus one (the carry out of the top is dropped)
RECURSIVE Increment(_, _)
Increment(b, i) ==
    IF i = 0 THEN b
    ELSE IF b[i] = 0 THEN [b EXCEPT ![i] = 1]
    ELSE Increment([b EXCEPT ![i] = 0], i - 1)

\* the bits of the f64 nearest to the u64 `mag`, with sign bit `sign`
U64ToF64(mag, sign) ==
    IF IsZero(mag) THEN <<sign * 32768, 0, 0, 0>>
    ELSE
      LET b == ToBits(mag)
          p == CHOOSE i \in 1..64 : b[i] = 1 /\ \A j \in 1..(i - 1) : b[j] = 0
          bit(i) == IF i <= 64 THEN b[i] ELSE 0
          \* the leading one and the 52 bits after it
          kept == [i \in 1..53 |-> bit(p + i - 1)]
          guard == bit(p + 53)
          sticky == \E i \in (p + 54)..64 : b[i] = 1
          up == guard = 1 /\ (sticky \/ kept[53] = 1)
          carried == up /\ \A i \in 1..53 : kept[i] = 1
          rounded == IF up THEN Increment(kept, 53) ELSE kept
          e == 1023 + (64 - p) + (IF carried THEN 1 ELSE 0)
          out == [i \in 1..64 |->
                     IF i = 1 THEN sign
                     ELSE IF i <= 12 THEN (e \div TwoTo(12 - i)) % 2
                     ELSE IF carried THEN 0
                     ELSE rounded[i - 11]]
      IN  FromBits(out)

\* as Number::as_f64, but an integer that is not an i64 has no f64
as_f64_partial(n) ==
    CASE n.repr = "PosInt" -> IF is_i64(n) THEN Some(F64(U64ToF64(n.bits, 0))) ELSE None
      [] n.repr = "NegInt" -> Some(F64(U64ToF64(Negate(n.bits), 1)))
      [] n.repr = "Float" -> Some(F64(n.bits))

as_f64(n) ==
    CASE n.repr = "PosInt" -> Some(F64(U64ToF64(n.bits, 0)))
      [] n.repr = "NegInt" -> Some(F64(U64ToF64(Negate(n.bits), 1)))
      [] n.repr = "Float" -> Some(F64(n.bits))

extract_float(map, name) ==
    LET v == get(map, name) IN
    IF v.some /\ v.val.t = "Number" THEN unwrap(as_f64(v.val.n))
    ELSE IF v.some THEN Err(MustBe(name, "a number"))
    ELSE Err(NotProvided(name))

\* as extract_bool, but a map holding any other key is rejected
extract_bool_strict(map, name) ==
    LET v == get(map, name) IN
    IF DOMAIN map \ {name} /= {} THEN Err("Unexpected parameters with '" \o name \o "'")
    ELSE IF v.some /\ v.val.t = "Bool" THEN Ok(Bool(v.val.b))
    ELSE IF v.some THEN Err(MustBe(name, "a boolean"))
    ELSE Err(NotProvided(name))

extract_bool(map, name) ==
    LET v == get(map, name) IN
    IF v.some /\ v.val.t = "Bool" THEN Ok(Bool(v.val.b))
    ELSE IF v.some THEN Err(MustBe(name, "a boolean"))
    ELSE Err(NotProvided(name))

extract_json(map, name) ==
    LET v == get(map, name) IN
    IF v.some THEN Ok(v.val) ELSE Err(NotProvided(name))

\* the for loop over `required`, from index i on
RECURSIVE validate_from(_, _, _)
validate_from(map, required, i) ==
    IF i > Len(required) THEN Ok(Unit)
    ELSE IF ~contains_key(map, required[i]) THEN Err(NotProvided(required[i]))
    ELSE validate_from(map, required, i + 1)

\* as validate_params, but a key mapped to null counts as missing
RECURSIVE validate_nonnull_from(_, _, _)
validate_nonnull_from(map, required, i) ==
    IF i > Len(required) THEN Ok(Unit)
    ELSE IF ~contains_key(map, required[i]) \/ map[required[i]] = JNull
         THEN Err(NotProvided(required[i]))
    ELSE validate_nonnull_from(map, required, i + 1)

validate_params_nonnull(map, required) == validate_nonnull_from(map, required, 1)

\* as validate_params, but the loop runs to the end and the last missing
\* name is the one reported
RECURSIVE validate_last_from(_, _, _, _)
validate_last_from(map, required, i, found) ==
    IF i > Len(required) THEN found
    ELSE IF ~contains_key(map, required[i])
         THEN validate_last_from(map, required, i + 1, Err(NotProvided(required[i])))
    ELSE validate_last_from(map, required, i + 1, found)

validate_params_last(map, required) == validate_last_from(map, required, 1, Ok(Unit))

validate_params(map, required) == validate_from(map, required, 1)

(***************************************************************************)
(* lib_cpi: the schema types, the param! macro, the response helpers and   *)
(* the defaulted methods of the CpiExtension trait.                        *)
(***************************************************************************)
ParamType == {"String", "Number", "Boolean", "Object", "Array"}

ActionParameter(name, description, required, param_type, default_value) ==
    [name |-> name, description |-> description, required |-> required,
     param_type |-> param_type, default_value |-> default_value]

ActionDefinition(name, description, parameters) ==
    [name |-> name, description |-> description, parameters |-> parameters]

\* param!(name, desc, type, required)
param_required(name, desc, type) == ActionParameter(name, desc, TRUE, type, None)
\* param!(name, desc, type, optional, default)
param_optional_default(name, desc, type, default) ==
    ActionParameter(name, desc, FALSE, type, Some(default))
\* param!(name, desc, type, optional)
param_optional(name, desc, type) == ActionParameter(name, desc, FALSE, type, None)

\* json!(k) for a small non-negative integer literal
JInt(k) == PosInt(<<0, 0, 0, k>>)

\* as response::success, but without a payload the data key is null
success_null_data(data) ==
    IF data.some THEN JObject([success |-> JBool(TRUE), data |-> data.val])
    ELSE JObject([success |-> JBool(TRUE), data |-> JNull])

\* response::success
success(data) ==
    IF data.some THEN JObject([success |-> JBool(TRUE), data |-> data.val])
    ELSE JObject([success |-> JBool(TRUE)])

\* response::bool_result
bool_result(b) == JObject([success |-> JBool(TRUE), result |-> JBool(b)])

\* response::error
error(message) == JObject([success |-> JBool(FALSE), error |-> JString(message)])

\* CpiExtension::test_install, the default implementation
default_test_install == Ok(JObject([status |-> JString("ok")]))

\* what execute_action hands back: the ActionResult and the handler it ran
Ran(name, args, res) == [res |-> res, handler |-> [ran |-> TRUE, name |-> name, args |-> args]]
NotRun(res) == [res |-> res, handler |-> [ran |-> FALSE]]

(***************************************************************************)
(* MockExtension (lib_cpi/tests/integration.rs)                            *)
(***************************************************************************)
OS == "linux"   \* std::env::consts::OS

test_no_params ==
    Ok(JObject([success |-> JBool(TRUE),
                message |-> JString("Action executed successfully")]))

test_with_params(name, count) ==
    Ok(JObject([success |-> JBool(TRUE),
                message |-> JString("Hello, " \o name \o "! Count: " \o I64ToString(count))]))

test_complex_return(include_details) ==
    LET base == [success |-> JBool(TRUE),
                 timestamp |-> JString("2023-09-30T12:00:00Z"),
                 message |-> JString("Complex data returned")]
        details == JObject([system |-> JString(OS),
                            numbers |-> JArray(<<JInt(1), JInt(2), JInt(3), JInt(4), JInt(5)>>),
                            nested |-> JObject([a |-> JInt(1), b |-> JString("test"),
                                                c |-> JBool(TRUE)])])
    IN  IF include_details
        THEN Ok(JObject([k \in DOMAIN base \cup {"details"} |->
                            IF k = "details" THEN details ELSE base[k]]))
        ELSE Ok(JObject(base))

test_error(should_fail) ==
    IF should_fail THEN Err("This action failed intentionally")
    ELSE Ok(JObject([success |-> JBool(TRUE), message |-> JString("Action did not fail")]))

\* as MockExtension_list_actions, with the last action left out
MockExtension_list_actions_short ==
    Vec(<<"test_install", "test_no_params", "test_with_params", "test_complex_return">>)

MockExtension_list_actions ==
    Vec(<<"test_install", "test_no_params", "test_with_params", "test_complex_return",
          "test_error">>)

MockExtension_get_action_definition(action) ==
    CASE action = "test_install" ->
            Some(ActionDefinition("test_install",
                                  "Test if the extension is properly installed", <<>>))
      [] action = "test_no_params" ->
            Some(ActionDefinition("test_no_params", "Test action with no parameters", <<>>))
      [] action = "test_with_params" ->
            Some(ActionDefinition("test_with_params",
                    "Test action with string and integer parameters",
                    << param_required("name", "Name parameter", "String"),
                       param_required("count", "Count parameter", "Number") >>))
      [] action = "test_complex_return" ->
            Some(ActionDefinition("test_complex_return",
                    "Test action with complex return value",
                    << param_optional_default("include_details",
                           "Include detailed information", "Boolean", JBool(FALSE)) >>))
      [] action = "test_error" ->
            Some(ActionDefinition("test_error", "Test action that returns an error",
                    << param_required("should_fail", "Should the action fail?", "Boolean") >>))
      [] OTHER -> None

\* as dispatched_params, were execute_action to fill every absent optional
\* parameter with the default_value its definition declares
dispatched_params_defaulting(definition, map) ==
    IF ~definition.some THEN map
    ELSE LET ps == definition.val.parameters
             filled == { i \in 1..Len(ps) : /\ ~ps[i].required
                                            /\ ps[i].default_value.some
                                            /\ ps[i].name \notin DOMAIN map }
             index(k) == CHOOSE i \in filled : ps[i].name = k
         IN  [k \in DOMAIN map \cup { ps[i].name : i \in filled } |->
                 IF k \in DOMAIN map THEN map[k] ELSE ps[index(k)].default_value.val]

\* the argument map the dispatch arms read: execute_action matches on the
\* action name and hands each arm the params it received; it does not look
\* up the definition of the action, whatever that declares
dispatched_params(definition, map) == map

\* match action { .. } of MockExtension::execute_action
MockExtension_dispatch(action, map) ==
    CASE action = "test_install" -> Ran("test_install", <<>>, default_test_install)
      [] action = "test_no_params" -> Ran("test_no_params", <<>>, test_no_params)
      [] action = "test_with_params" ->
            LET name == extract_string(map, "name")
                count == extract_int(map, "count")
            IN  IF ~name.ok THEN NotRun(name)
                ELSE IF ~count.ok THEN NotRun(count)
                ELSE Ran("test_with_params", <<name.val, count.val>>,
                         test_with_params(name.val.str, count.val.i64))
      [] action = "test_complex_return" ->
            LET v == get(map, "include_details")
                b == IF v.some THEN as_bool(v.val) ELSE None
                include_details == IF b.some THEN b.val ELSE Bool(FALSE)
            IN  Ran("test_complex_return", <<include_details>>,
                    test_complex_return(include_details.bool))
      [] action = "test_error" ->
            LET should_fail == extract_bool(map, "should_fail")
            IN  IF ~should_fail.ok THEN NotRun(should_fail)
                ELSE Ran("test_error", <<should_fail.val>>, test_error(should_fail.val.bool))
      [] OTHER -> NotRun(Err("Unknown action: " \o action))

\* MockExtension::execute_action, were `definition` what
\* get_action_definition declares for the action
MockExtension_execute_action_declaring(definition, action, map) ==
    MockExtension_dispatch(action, dispatched_params(definition, map))

MockExtension_execute_action(action, map) ==
    MockExtension_execute_action_declaring(MockExtension_get_action_definition(action),
                                           action, map)

(***************************************************************************)
(* The implementation cpi_extension generates (lib_cpi_macros/src/lib.rs). *)
(* The handlers the provider writes itself (list_workers, create_worker,   *)
(* and test_install where the struct has its own) are not part of the      *)
(* library: such a handler returns any of ProviderOutcomes.                *)
(***************************************************************************)
ProviderOutcomes == { Ok(success(None)), Err("provider failure") }

\* self.test_install(): the struct's own test_install where it has one,
\* CpiExtension::test_install otherwise
TestInstallOutcomes == {default_test_install} \cup ProviderOutcomes

\* what the handler an arm of the generated execute_action calls may return
HandlerOutcomes(action) ==
    IF action = "test_install" THEN TestInstallOutcomes ELSE ProviderOutcomes

\* test_install_metadata(), as cpi_action generates it for
\* #[cpi_action(description = "Test if VirtualBox is properly installed")]
test_install_metadata ==
    ActionDefinition("test_install", "Test if VirtualBox is properly installed", <<>>)

\* the registry once initialize_action_registry has filled it
Initialised == [n \in {"test_install"} |-> test_install_metadata]

\* ACTION_REGISTRY after initialize_action_registry()
initialize_action_registry(reg) ==
    IF DOMAIN reg /= {} THEN reg
    ELSE Initialised

\* the orders in which a HashMap may yield its keys
KeyOrders(map) ==
    { Vec(f) : f \in { g \in [1..Cardinality(DOMAIN map) -> DOMAIN map] :
                          \A i, j \in DOMAIN g : i /= j => g[i] /= g[j] } }

\* what a list_actions() that starts with the registry at reg returns: the
\* keys, in any order, of the registry its initialize_action_registry()
\* leaves (the steps of the call, and the other threads running between
\* them, are the actions RegistryCall .. ReleaseRead)
Generated_list_actions(reg) == KeyOrders(initialize_action_registry(reg))

\* what a get_action_definition(action) that starts with the registry at reg
\* returns
Generated_get_action_definition(reg, action) == get(initialize_action_registry(reg), action)

\* match action { .. } of the generated execute_action
Generated_dispatch(action, map, outcome) ==
    CASE action = "test_install" -> Ran("test_install", <<>>, outcome)
      [] action = "list_workers" -> Ran("list_workers", <<>>, outcome)
      [] action = "create_worker" ->
            LET worker_name == extract_string(map, "worker_name")
                os_type == extract_string_opt(map, "os_type")
                memory_mb == extract_int_opt(map, "memory_mb")
                cpu_count == extract_int_opt(map, "cpu_count")
                or(opt, d) == IF opt.some THEN opt.val ELSE d
            IN  IF ~worker_name.ok THEN NotRun(worker_name)
                ELSE IF ~os_type.ok THEN NotRun(os_type)
                ELSE IF ~memory_mb.ok THEN NotRun(memory_mb)
                ELSE IF ~cpu_count.ok THEN NotRun(cpu_count)
                ELSE Ran("create_worker",
                         << worker_name.val, or(os_type.val, Str("Ubuntu_64")),
                            or(memory_mb.val, I64(<<0, 0, 0, 2048>>)),
                            or(cpu_count.val, I64(<<0, 0, 0, 2>>)) >>,
                         outcome)
      [] OTHER -> NotRun(Err("Action '" \o action \o "' not found"))

\* the generated execute_action, were `definition` what the registry holds
\* for the action
Generated_execute_action_declaring(definition, action, map, outcome) ==
    Generated_dispatch(action, dispatched_params(definition, map), outcome)

Generated_execute_action(action, map, outcome) ==
    Generated_execute_action_declaring(get(Initialised, action), action, map, outcome)

(***************************************************************************)
(* The inputs: argument values of every JSON kind and every Number         *)
(* representation, and the argument maps of at most MaxArgs keys.          *)
(***************************************************************************)
I64Max == <<32767, 65535, 65535, 65535>>    \* 9223372036854775807
U64Above == <<32768, 0, 0, 0>>              \* 9223372036854775808
MinusOne == <<65535, 65535, 65535, 65535>>  \* -1
Int123 == <<0, 0, 0, 123>>
F64_1_5 == <<16376, 0, 0, 0>>               \* the bits of 1.5
F64_1_0 == <<16368, 0, 0, 0>>               \* the bits of 1.0

Values ==
    { JNull, JBool(TRUE), JBool(FALSE),
      PosInt(Int123), PosInt(I64Max), PosInt(U64Above), NegInt(MinusOne),
      Float(F64_1_5), Float(F64_1_0),
      JString("123"), JString("World"),
      JArray(<<>>), JObject(<<>>) }

ExtensionValues ==
    { JNull, JBool(TRUE), JBool(FALSE), PosInt(Int123), Float(F64_1_5), JString("World") }

ExtensionKeys ==
    {"name", "count", "include_details", "should_fail", "worker_name", "memory_mb"}

ActionNames ==
    {"test_install", "test_no_params", "test_with_params", "test_complex_return",
     "test_error", "list_workers", "create_worker", "nope", "non_existent_action"}

ValidationKeys == {"count", "str_param", "not provided"}

\* for the checks of totality: a value of every JSON kind and of every
\* Number representation, under keys that the helpers and the dispatch arms
\* both read
TotalityValues ==
    { JNull, JBool(TRUE), PosInt(Int123), PosInt(U64Above), NegInt(MinusOne),
      Float(F64_1_5), JString("World"), JArray(<<>>), JObject(<<>>) }

TotalityKeys == {"count", "name", "should_fail", "worker_name"}

ArgMaps(keys, values) ==
    UNION { [K -> values] : K \in {S \in SUBSET keys : Cardinality(S) <= MaxArgs} }

RequiredLists ==
    UNION { [1..n -> ValidationKeys] : n \in 0..MaxRequired }

NoCall == [op |-> "none"]
NoResult == [pending |-> TRUE]
NoHandler == [ran |-> FALSE]
EmptyRegistry == <<>>
NoThreads == <<>>
Unlocked == [writer |-> 0, readers |-> {}]
EmptyHeap == <<>>
NoPointers == <<>>

(***************************************************************************)
(* The host calls a validation helper on its argument map.                 *)
(***************************************************************************)
ExtractString ==
    \E k \in ValidationKeys :
        /\ call = NoCall
        /\ call' = [op |-> "extract_string", name |-> k]
        /\ result' = extract_string(params, k)
        /\ UNCHANGED <<registry, params, handler, threads, lock, heap, host>>

ExtractStringOpt ==
    \E k \in ValidationKeys :
        /\ call = NoCall
        /\ call' = [op |-> "extract_string_opt", name |-> k]
        /\ result' = extract_string_opt(params, k)
        /\ UNCHANGED <<registry, params, handler, threads, lock, heap, host>>

ExtractInt ==
    \E k \in ValidationKeys :
        /\ call = NoCall
        /\ call' = [op |-> "extract_int", name |-> k]
        /\ result' = extract_int(params, k)
        /\ UNCHANGED <<registry, params, handler, threads, lock, heap, host>>

ExtractIntOpt ==
    \E k \in ValidationKeys :
        /\ call = NoCall
        /\ call' = [op |-> "extract_int_opt", name |-> k]
        /\ result' = extract_int_opt(params, k)
        /\ UNCHANGED <<registry, params, handler, threads, lock, heap, host>>

ExtractFloat ==
    \E k \in ValidationKeys :
        /\ call = NoCall
        /\ call' = [op |-> "extract_float", name |-> k]
        /\ result' = extract_float(params, k)
        /\ UNCHANGED <<registry, params, handler, threads, lock, heap, host>>

ExtractBool ==
    \E k \in ValidationKeys :
        /\ call = NoCall
        /\ call' = [op |-> "extract_bool", name |-> k]
        /\ result' = extract_bool(params, k)
        /\ UNCHANGED <<registry, params, handler, threads, lock, heap, host>>

ExtractJson ==
    \E k \in ValidationKeys :
        /\ call = NoCall
        /\ call' = [op |-> "extract_json", name |-> k]
        /\ result' = extract_json(params, k)
        /\ UNCHANGED <<registry, params, handler, threads, lock, heap, host>>

ValidateParams ==
    \E required \in RequiredLists :
        /\ call = NoCall
        /\ call' = [op |-> "validate_params", required |-> required]
        /\ result' = validate_params(params, required)
        /\ UNCHANGED <<registry, params, handler, threads, lock, heap, host>>

\* the host consumes the returned value and is ready for its next call
HostTakesResult ==
    /\ call /= NoCall
    /\ call' = NoCall
    /\ result' = NoResult
    /\ handler' = NoHandler
    /\ UNCHANGED <<registry, params, threads, lock, heap, host>>

(***************************************************************************)
(* The host calls a method of an extension.                                *)
(***************************************************************************)
MockListActions ==
    /\ call = NoCall
    /\ call' = [op |-> "list_actions", ext |-> "MockExtension"]
    /\ result' = MockExtension_list_actions
    /\ UNCHANGED <<registry, params, handler, threads, lock, heap, host>>

MockGetActionDefinition ==
    \E action \in ActionNames :
        /\ call = NoCall
        /\ call' = [op |-> "get_action_definition", ext |-> "MockExtension", action |-> action]
        /\ result' = MockExtension_get_action_definition(action)
        /\ UNCHANGED <<registry, params, handler, threads, lock, heap, host>>

MockExecuteAction ==
    \E action \in ActionNames :
        LET r == MockExtension_execute_action(action, params) IN
        /\ call = NoCall
        /\ call' = [op |-> "execute_action", ext |-> "MockExtension", action |-> action]
        /\ result' = r.res
        /\ handler' = r.handler
        /\ UNCHANGED <<registry, params, threads, lock, heap, host>>

\* the generated execute_action; it takes no lock and does not touch
\* ACTION_REGISTRY (list_actions and get_action_definition, which do, are
\* the actions RegistryCall .. ReleaseRead)
GeneratedExecuteAction ==
    \E action \in ActionNames :
      \E outcome \in HandlerOutcomes(action) :
        LET r == Generated_execute_action(action, params, outcome) IN
        /\ call = NoCall
        /\ call' = [op |-> "execute_action", ext |-> "Generated", action |-> action]
        /\ result' = r.res
        /\ handler' = r.handler
        /\ UNCHANGED <<registry, params, threads, lock, heap, host>>

Init ==
    /\ registry = EmptyRegistry
    /\ params \in ArgMaps(ExtensionKeys, ExtensionValues)
    /\ call = NoCall
    /\ result = NoResult
    /\ handler = NoHandler
    /\ threads = NoThreads
    /\ lock = Unlocked
    /\ heap = EmptyHeap
    /\ host = NoPointers

Next ==
    \/ MockListActions
    \/ MockGetActionDefinition
    \/ MockExecuteAction
    \/ GeneratedExecuteAction
    \/ HostTakesResult

Spec == Init /\ [][Next]_vars

InitValidation ==
    /\ registry = EmptyRegistry
    /\ params \in ArgMaps(ValidationKeys, Values)
    /\ call = NoCall
    /\ result = NoResult
    /\ handler = NoHandler
    /\ threads = NoThreads
    /\ lock = Unlocked
    /\ heap = EmptyHeap
    /\ host = NoPointers

NextValidation ==
    \/ ExtractString
    \/ ExtractStringOpt
    \/ ExtractInt
    \/ ExtractIntOpt
    \/ ExtractFloat
    \/ ExtractBool
    \/ ExtractJson
    \/ ValidateParams
    \/ HostTakesResult

SpecValidation == InitValidation /\ [][NextValidation]_vars

\* every helper and every extension method, on argument maps of every kind
InitTotality ==
    /\ registry = EmptyRegistry
    /\ params \in ArgMaps(TotalityKeys, TotalityValues)
    /\ call = NoCall
    /\ result = NoResult
    /\ handler = NoHandler
    /\ threads = NoThreads
    /\ lock = Unlocked
    /\ heap = EmptyHeap
    /\ host = NoPointers

NextTotality ==
    \/ ExtractString
    \/ ExtractStringOpt
    \/ ExtractInt
    \/ ExtractIntOpt
    \/ ExtractFloat
    \/ ExtractBool
    \/ ExtractJson
    \/ ValidateParams
    \/ MockListActions
    \/ MockGetActionDefinition
    \/ MockExecuteAction
    \/ GeneratedExecuteAction
    \/ HostTakesResult

SpecTotality == InitTotality /\ [][NextTotality]_vars

(***************************************************************************)
(* The extensions: what the claims say of them.                            *)
(***************************************************************************)
Extensions == {"MockExtension", "Generated"}

\* x is an element of the Vec v
InSeq(v, x) == \E i \in 1..Len(v.vec) : v.vec[i] = x

\* the vectors list_actions() of extension ext may return in this state
ListActionsOf(ext) ==
    IF ext = "MockExtension" THEN {MockExtension_list_actions}
    ELSE Generated_list_actions(registry)

\* what get_action_definition(n) of extension ext returns in this state
DefinitionOf(ext, n) ==
    IF ext = "MockExtension" THEN MockExtension_get_action_definition(n)
    ELSE Generated_get_action_definition(registry, n)

\* n is an element of list_actions()
Listed(ext, n) == \E names \in ListActionsOf(ext) : InSeq(names, n)

Executed == call.op = "execute_action"

\* C1: for MockExtension and for the generated implementation, in every
\* state and for every name n: n is in list_actions() if and only if
\* get_action_definition(n) returns a definition, and that definition's
\* name is n; the values the generated calls return to a host thread,
\* whatever the other threads do meanwhile, agree with it.
C1_Bidirectional ==
    /\ \A ext \in Extensions : \A n \in ActionNames :
          /\ \A names \in ListActionsOf(ext) : InSeq(names, n) <=> DefinitionOf(ext, n).some
          /\ DefinitionOf(ext, n).some => DefinitionOf(ext, n).val.name = n
    /\ \A t \in DOMAIN threads :
          /\ (threads[t].pc = "returned" /\ threads[t].op = "list_actions") =>
                \A n \in ActionNames :
                    InSeq(threads[t].ret, n) <=> DefinitionOf("Generated", n).some
          /\ (threads[t].pc = "returned" /\ threads[t].op = "get_action_definition") =>
                /\ threads[t].ret.some <=> Listed("Generated", threads[t].action)
                /\ threads[t].ret.some => threads[t].ret.val.name = threads[t].action

\* one thread got the definition of a listed name, another got none for a
\* name that is not listed, a third got the list
C1_Witness ==
    \E t, u, v \in DOMAIN threads :
        /\ threads[t].pc = "returned"
        /\ threads[t].op = "get_action_definition"
        /\ threads[t].ret.some
        /\ threads[t].ret.val.name = threads[t].action
        /\ Listed("Generated", threads[t].action)
        /\ threads[u].pc = "returned"
        /\ threads[u].op = "get_action_definition"
        /\ threads[u].ret = None
        /\ ~Listed("Generated", threads[u].action)
        /\ threads[v].pc = "returned"
        /\ threads[v].op = "list_actions"
        /\ registry /= EmptyRegistry

\* C2: for every action name that is not an element of list_actions(),
\* execute_action returns an error without dispatching to a handler, and
\* get_action_definition returns none.
C2_Original ==
    (Executed /\ ~Listed(call.ext, call.action)) =>
        /\ ~result.ok
        /\ ~handler.ran
        /\ DefinitionOf(call.ext, call.action) = None

\* the argument map breaks the schema: a required parameter is absent, or a
\* declared parameter is present with a value not of its param_type
HasParamType(v, type) ==
    CASE type = "String" -> v.t = "String"
      [] type = "Number" -> v.t = "Number"
      [] type = "Boolean" -> v.t = "Bool"
      [] type = "Object" -> v.t = "Object"
      [] type = "Array" -> v.t = "Array"

BreaksSchema(parameters, map) ==
    \E i \in 1..Len(parameters) :
        \/ parameters[i].required /\ parameters[i].name \notin DOMAIN map
        \/ /\ parameters[i].name \in DOMAIN map
           /\ ~HasParamType(map[parameters[i].name], parameters[i].param_type)

Schema == DefinitionOf(call.ext, call.action).val.parameters

\* C3: for every known action, if a required parameter is absent or a
\* declared parameter is present with a value of another type than its
\* param_type, execute_action returns an error and the handler does not run.
C3_Original ==
    (Executed /\ Listed(call.ext, call.action) /\ BreaksSchema(Schema, params)) =>
        /\ ~result.ok
        /\ ~handler.ran

\* C4: for every known action and every argument map that conforms to its
\* schema (Number admitting integers and fractions), execute_action returns
\* a success result, and in no case an error raised before the handler ran
\* (an unknown-action error or a validation error).
C4_Original ==
    (Executed /\ Listed(call.ext, call.action) /\ ~BreaksSchema(Schema, params)) =>
        (result.ok \/ handler.ran)

\* C5, for MockExtension: execute_action with an unknown action name
\* returns an error whose message contains "not found" and the action name.
C5_Original ==
    (Executed /\ call.ext = "MockExtension" /\ ~Listed(call.ext, call.action)) =>
        /\ ~result.ok
        /\ Contains(result.err, "not found")
        /\ Contains(result.err, call.action)

(***************************************************************************)
(* The validation helpers: what the claims say of them.                    *)
(***************************************************************************)
IntOps == {"extract_int", "extract_int_opt"}
StringOps == {"extract_string", "extract_string_opt"}
TypedOps == StringOps \cup IntOps \cup {"extract_bool"}
OptOps == {"extract_string_opt", "extract_int_opt"}
RequiredOps == {"extract_string", "extract_int", "extract_float", "extract_bool", "extract_json"}

Present == call.op \in (RequiredOps \cup OptOps) /\ call.name \in DOMAIN params
Absent == call.op \in (RequiredOps \cup OptOps) /\ call.name \notin DOMAIN params
Stored == params[call.name]

\* u64 comparison of two limb tuples
U64LessEq(a, b) ==
    \/ a = b
    \/ \E i \in 1..4 : a[i] < b[i] /\ \A j \in 1..(i - 1) : a[j] = b[j]

\* a JSON number held as an integer that fits a signed 64-bit integer
InI64Range(v) ==
    /\ v.t = "Number"
    /\ \/ v.n.repr = "NegInt"
       \/ v.n.repr = "PosInt" /\ U64LessEq(v.n.bits, I64Max)

\* a JSON number written as an integer, whatever its size
Integral(v) == v.t = "Number" /\ v.n.repr \in {"PosInt", "NegInt"}

\* v has the type the helper op extracts
RightType(op, v) ==
    CASE op \in StringOps -> v.t = "String"
      [] op \in IntOps -> InI64Range(v)
      [] op = "extract_bool" -> v.t = "Bool"

\* what a successful helper op returns for the stored value v
Extracted(op, v) ==
    CASE op = "extract_string" -> Ok(Str(v.s))
      [] op = "extract_string_opt" -> Ok(Some(Str(v.s)))
      [] op = "extract_int" -> Ok(I64(v.n.bits))
      [] op = "extract_int_opt" -> Ok(Some(I64(v.n.bits)))
      [] op = "extract_bool" -> Ok(Bool(v.b))

\* C6: on a key present with a value of the matching type (a string, a
\* boolean, an integer of the i64 range), extract_string, extract_int,
\* extract_bool, extract_string_opt and extract_int_opt succeed and return
\* exactly the stored value, the _opt forms wrapped as a present value.
C6_ExactValue ==
    (Present /\ call.op \in TypedOps /\ RightType(call.op, Stored))
        => result = Extracted(call.op, Stored)

C6_Witness ==
    /\ Present
    /\ call.op = "extract_int_opt"
    /\ Stored = NegInt(MinusOne)
    /\ result = Ok(Some(I64(MinusOne)))

\* C7 as claimed: on a key present with a wrong-typed value the typed helpers
\* fail with a message that contains "must be a" and the parameter name and
\* does not contain "not provided".
C7_Original ==
    (Present /\ call.op \in TypedOps /\ ~RightType(call.op, Stored))
        => /\ ~result.ok
           /\ Contains(result.err, "must be a")
           /\ Contains(result.err, call.name)
           /\ ~Contains(result.err, "not provided")

\* C7 as amended: the message contains "must be a" and the parameter name,
\* contains "not provided" only when the parameter name itself does, and is
\* never the message an absent key produces, whatever the key.
C7_WrongType ==
    (Present /\ call.op \in TypedOps /\ ~RightType(call.op, Stored))
        => /\ ~result.ok
           /\ Contains(result.err, "must be a")
           /\ Contains(result.err, call.name)
           /\ Contains(result.err, "not provided") => Contains(call.name, "not provided")
           /\ StartsWith(result.err, "Parameter '")
           /\ \A k \in ValidationKeys : result.err /= NotProvided(k)

C7_Witness ==
    /\ Present
    /\ call.op = "extract_bool"
    /\ Stored = JNull
    /\ ~result.ok
    /\ Contains(result.err, "must be a boolean")

\* C8: on an absent key the required forms fail with a message containing
\* "not provided" and the parameter name; the optional forms succeed with
\* the explicit no-value result.
C8_AbsentKey ==
    Absent =>
        /\ call.op \in RequiredOps =>
              /\ ~result.ok
              /\ Contains(result.err, "not provided")
              /\ Contains(result.err, call.name)
        /\ call.op \in OptOps => result = Ok(None)

C8_Witness ==
    /\ Absent
    /\ call.op = "extract_int_opt"
    /\ params /= <<>>
    /\ result = Ok(None)

\* C9 as claimed: on a present key extract_int and extract_int_opt succeed
\* exactly when the value is an integral number: every integer is accepted.
C9_Original ==
    (Present /\ call.op \in IntOps) => (result.ok <=> Integral(Stored))

\* C9 as amended: on a present key extract_int and extract_int_opt succeed
\* exactly when the value is a number held as an integer of the signed 64-bit
\* range, and then return that integer; every other value (a non-number, a
\* float even with a zero fraction, an integer above i64::MAX) is rejected
\* with "must be an integer".
C9_IntegerRange ==
    (Present /\ call.op \in IntOps) =>
        /\ result.ok <=> InI64Range(Stored)
        /\ result.ok => result = Extracted(call.op, Stored)
        /\ ~result.ok => result.err = "Parameter '" \o call.name \o "' must be an integer"

C9_Witness ==
    /\ Present
    /\ call.op = "extract_int"
    /\ Stored = PosInt(U64Above)
    /\ ~result.ok
    /\ Contains(result.err, "must be an integer")

\* C10: validate_params succeeds if and only if every name of the required
\* list is a key of the argument map, whatever the value stored under it;
\* an empty required list always succeeds.
C10_RequiredKeys ==
    call.op = "validate_params" =>
        /\ result.ok <=> \A i \in 1..Len(call.required) : call.required[i] \in DOMAIN params
        /\ call.required = <<>> => result = Ok(Unit)

C10_Witness ==
    /\ call.op = "validate_params"
    /\ \E i \in 1..Len(call.required) :
          /\ call.required[i] \in DOMAIN params
          /\ params[call.required[i]] = JNull
    /\ result = Ok(Unit)

\* the index of the first name of the required list that is not a key of the map
FirstMissing(required, map) ==
    CHOOSE i \in 1..Len(required) :
        /\ required[i] \notin DOMAIN map
        /\ \A j \in 1..(i - 1) : required[j] \in DOMAIN map

\* C11: when validate_params fails, its message is the "not provided"
\* message of the first name, in the order of the required list, that is not
\* a key of the argument map; it is not the message of any other name, so a
\* later missing name is not reported.
C11_FirstMissing ==
    (call.op = "validate_params" /\ ~result.ok) =>
        LET first == call.required[FirstMissing(call.required, params)] IN
        /\ first \notin DOMAIN params
        /\ result.err = "Required parameter '" \o first \o "' not provided"
        /\ \A i \in 1..Len(call.required) :
              call.required[i] /= first => result.err /= NotProvided(call.required[i])

C11_Witness ==
    /\ call.op = "validate_params"
    /\ Len(call.required) = 2
    /\ call.required[1] /= call.required[2]
    /\ call.required[1] \notin DOMAIN params
    /\ call.required[2] \notin DOMAIN params
    /\ result = Err(NotProvided(call.required[1]))

(***************************************************************************)
(* execute_action as a function of its inputs: what the claims say of it.  *)
(***************************************************************************)
\* what execute_action(action, map) of extension ext hands back when the
\* provider handler it may run returns `outcome`
ExecuteOf(ext, action, map, outcome) ==
    IF ext = "MockExtension" THEN MockExtension_execute_action(action, map)
    ELSE Generated_execute_action(action, map, outcome)

\* what the call of this state handed back
Returned == [res |-> result, handler |-> handler]

\* the parameter names the schema of the action declares
Declared(ext, action) ==
    LET parameters == DefinitionOf(ext, action).val.parameters
    IN  { parameters[i].name : i \in 1..Len(parameters) }

\* the keys an argument map may carry beside the declared ones
Undeclared(ext, action) == (ExtensionKeys \cup {"os_type", "extra"}) \ Declared(ext, action)

Without(map, k) == [x \in DOMAIN map \ {k} |-> map[x]]
With(map, k, v) == [x \in DOMAIN map \cup {k} |-> IF x = k THEN v ELSE map[x]]

\* the maps that differ from map in one undeclared key: removed, added or
\* given another value
UndeclaredVariants(ext, action, map) ==
    { Without(map, k) : k \in Undeclared(ext, action) \cap DOMAIN map }
        \cup { With(map, k, v) : k \in Undeclared(ext, action), v \in ExtensionValues }

\* C12: for every action that has a schema, in both extensions, and every
\* argument map: removing, adding or changing a key the schema does not
\* declare leaves what execute_action returns unchanged (the same
\* ActionResult, the same handler run with the same arguments), so an
\* undeclared key never causes a rejection.
C12_UndeclaredIgnored ==
    (Executed /\ DefinitionOf(call.ext, call.action).some) =>
        \A outcome \in HandlerOutcomes(call.action) :
            ExecuteOf(call.ext, call.action, params, outcome) = Returned =>
                \A map \in UndeclaredVariants(call.ext, call.action, params) :
                    ExecuteOf(call.ext, call.action, map, outcome) = Returned

C12_Witness ==
    /\ Executed
    /\ call.ext = "MockExtension"
    /\ call.action = "test_error"
    /\ "should_fail" \in DOMAIN params
    /\ "name" \in DOMAIN params
    /\ "name" \in Undeclared(call.ext, call.action)
    /\ handler.ran
    /\ result.ok
    /\ MockExtension_execute_action(call.action, Without(params, "name")) = Returned

\* the optional parameters of the schema that the map leaves out
AbsentOptional(parameters, map) ==
    { i \in 1..Len(parameters) :
          ~parameters[i].required /\ parameters[i].name \notin DOMAIN map }

\* the default_value a schema may declare for an optional parameter: none,
\* the fallbacks of the dispatch arms, and values that differ from them
DeclaredDefaults ==
    { None, Some(JBool(FALSE)), Some(JBool(TRUE)), Some(JString("Ubuntu_64")),
      Some(JString("World")), Some(JInt(2048)), Some(JInt(123)), Some(JNull) }

\* the definition, with default as the default_value of every optional
\* parameter
Redeclare(definition, default) ==
    IF ~definition.some THEN definition
    ELSE LET ps == definition.val.parameters
         IN  Some(ActionDefinition(definition.val.name, definition.val.description,
                     [i \in 1..Len(ps) |->
                         IF ps[i].required THEN ps[i]
                         ELSE [ps[i] EXCEPT !.default_value = default]]))

\* a schema for the parameters the generated create_worker arm extracts,
\* declaring a default_value for each optional one.  No code of the
\* repository builds it (the registry holds no definition of create_worker):
\* it is an input of the comparison below
DeclaredSchema(os_type, memory_mb, cpu_count) ==
    ActionDefinition("create_worker", "",
        << param_required("worker_name", "", "String"),
           ActionParameter("os_type", "", FALSE, "String", os_type),
           ActionParameter("memory_mb", "", FALSE, "Number", memory_mb),
           ActionParameter("cpu_count", "", FALSE, "Number", cpu_count) >>)

\* the schemas compared: the definition the extension declares, with any
\* default_value for its optional parameters; for the generated
\* create_worker, of which there is no definition, the schemas declaring
\* any default_value for each of the three optional parameters it extracts
\* (the arm's own fallbacks "Ubuntu_64", 2048 and 2 among them)
Declarable(ext, action) ==
    { Redeclare(DefinitionOf(ext, action), default) : default \in DeclaredDefaults }
        \cup (IF ext = "Generated" /\ action = "create_worker"
               THEN { Some(DeclaredSchema(os_type, memory_mb, cpu_count)) :
                        os_type \in {None, Some(JString("Ubuntu_64")), Some(JString("World"))},
                        memory_mb \in {None, Some(JInt(2048)), Some(JInt(123)),
                                       Some(JString("World"))},
                        cpu_count \in {None, Some(JInt(2)), Some(JInt(123))} }
               ELSE {})

\* what execute_action(action, map) of extension ext hands back, were
\* definition the schema of the action
ExecuteDeclaring(ext, definition, action, map, outcome) ==
    IF ext = "MockExtension"
    THEN MockExtension_execute_action_declaring(definition, action, map)
    ELSE Generated_execute_action_declaring(definition, action, map, outcome)

\* C13: default_value is never applied on the execution path.  For every
\* action and argument map, in both extensions, execute_action hands back
\* the same (the same ActionResult, the same handler run with the same
\* arguments) whatever default_value the schema declares for the optional
\* parameters, and also when the schema declares none; when an optional
\* parameter is absent the handler runs with the fallback its dispatch arm
\* supplies (false for include_details; "Ubuntu_64", 2048 and 2 for
\* os_type, memory_mb and cpu_count).
C13_DefaultNeverApplied ==
    Executed =>
        /\ \A outcome \in HandlerOutcomes(call.action) :
              ExecuteOf(call.ext, call.action, params, outcome) = Returned =>
                  \A definition \in Declarable(call.ext, call.action) :
                      ExecuteDeclaring(call.ext, definition, call.action, params, outcome)
                          = Returned
        /\ (call.ext = "MockExtension" /\ call.action = "test_complex_return"
                /\ "include_details" \notin DOMAIN params) =>
              /\ handler.args = <<Bool(FALSE)>>
              /\ result = test_complex_return(FALSE)
        /\ (call.ext = "Generated" /\ call.action = "create_worker" /\ handler.ran) =>
              /\ "os_type" \notin DOMAIN params => handler.args[2] = Str("Ubuntu_64")
              /\ "memory_mb" \notin DOMAIN params => handler.args[3] = I64(<<0, 0, 0, 2048>>)
              /\ "cpu_count" \notin DOMAIN params => handler.args[4] = I64(<<0, 0, 0, 2>>)

\* include_details is absent and the handler ran with the arm's fallback,
\* false; among the schemas compared is one that declares true, and a
\* dispatcher applying it would have handed back something else
C13_Witness ==
    /\ Executed
    /\ call.ext = "MockExtension"
    /\ call.action = "test_complex_return"
    /\ AbsentOptional(Schema, params) = {1}
    /\ Schema[1].default_value = Some(JBool(FALSE))
    /\ handler = [ran |-> TRUE, name |-> "test_complex_return", args |-> <<Bool(FALSE)>>]
    /\ \E definition \in Declarable(call.ext, call.action) :
          /\ definition.val.parameters[1].default_value = Some(JBool(TRUE))
          /\ MockExtension_execute_action_declaring(definition, call.action, params) = Returned
          /\ MockExtension_dispatch(call.action,
                 dispatched_params_defaulting(definition, params)) /= Returned

(***************************************************************************)
(* Totality: no call ends in a panic.                                      *)
(***************************************************************************)
ValidationOps == RequiredOps \cup OptOps \cup {"validate_params"}

\* r is a value of a Rust Result: Ok with a value or Err with a message
IsResult(r) ==
    /\ "ok" \in DOMAIN r
    /\ \/ r.ok /\ DOMAIN r = {"ok", "val"}
       \/ ~r.ok /\ DOMAIN r = {"ok", "err"} /\ Len(r.err) > 0

\* C14: for every action name and every argument map, execute_action of
\* both extensions returns an ActionResult, and every validation function
\* (extract_* and validate_params) returns a value or an error message for
\* every argument map and name: no call ends in a panic.
C14_Total ==
    (call.op \in ValidationOps \cup {"execute_action"}) =>
        /\ IsResult(result)
        /\ "panic" \notin DOMAIN result

\* extract_float on an integer too large for an i64: as_f64 still has a value
C14_Witness ==
    /\ call.op = "extract_float"
    /\ call.name \in DOMAIN params
    /\ params[call.name] = PosInt(U64Above)
    /\ result = Ok(F64(<<17376, 0, 0, 0>>))

(***************************************************************************)
(* get_action_definition as a query.                                       *)
(***************************************************************************)
\* C15: get_action_definition is a pure, side-effect-free query: in both
\* extensions and for every name, no step of a call of it changes the
\* registry (the only state either extension keeps).
C15_Original ==
    [][\A t \in DOMAIN threads :
          (threads[t].op = "get_action_definition" /\ threads'[t] /= threads[t])
              => registry' = registry]_vars

(***************************************************************************)
(* MaxThreads host threads call execute_action on one MockExtension        *)
(* instance (CpiExtension: Send + Sync, execute_action(&self, ..)).  A     *)
(* call enters, then its dispatch arm extracts the arguments into locals,  *)
(* then the handler runs on the locals; the threads interleave at will.    *)
(***************************************************************************)
Threads == 1..MaxThreads

\* MockExtension::new()
MockExtension_new ==
    [name |-> "mock_extension", provider_type |-> "test",
     default_settings |-> [setting1 |-> JString("value1"), setting2 |-> JInt(42)]]

\* the heap of a host that has loaded one extension and holds its pointer
OneInstance ==
    <<[live |-> TRUE, owner |-> "host", freed_by |-> "none", object |-> MockExtension_new]>>

\* the calls the threads make: an action name and an argument map
ConcurrentCalls ==
    { [action |-> "test_with_params",
       params |-> [name |-> JString("World"), count |-> PosInt(Int123)]],
      [action |-> "test_with_params", params |-> [name |-> JString("World")]],
      [action |-> "test_complex_return", params |-> [include_details |-> JBool(TRUE)]],
      [action |-> "test_error", params |-> [should_fail |-> JBool(TRUE)]],
      [action |-> "nope", params |-> <<>>] }

Idle ==
    [pc |-> "idle", self |-> 0, action |-> "", params |-> <<>>,
     locals |-> NoHandler, ret |-> NoResult]

\* the handler a dispatch arm calls, applied to the arguments it extracted
CallHandler(name, args) ==
    CASE name = "test_install" -> default_test_install
      [] name = "test_no_params" -> test_no_params
      [] name = "test_with_params" -> test_with_params(args[1].str, args[2].i64)
      [] name = "test_complex_return" -> test_complex_return(args[1].bool)
      [] name = "test_error" -> test_error(args[1].bool)

\* what the dispatch of each call yields and what each handler returns on
\* the arguments extracted for it, evaluated once for all the threads
Dispatch ==
    [a \in { c.action : c \in ConcurrentCalls }, m \in { c.params : c \in ConcurrentCalls } |->
        MockExtension_execute_action(a, m)]

HandlerRuns ==
    LET dispatched == { Dispatch[x].handler : x \in DOMAIN Dispatch }
    IN  [h \in { d \in dispatched : d.ran } |-> CallHandler(h.name, h.args)]

\* as CallParams, were the argument map of a call kept in a place the calls
\* share: every call reads the map of one of the calls in progress
CallParamsShared(t) ==
    threads[CHOOSE u \in Threads : threads[u].pc \in {"called", "handler"}].params

\* the argument map the call of thread t reads: the `params` it was given
CallParams(t) == threads[t].params

\* the host thread t calls execute_action(action, params) on the instance
ThreadCalls(t) ==
    \E c \in ConcurrentCalls :
        /\ threads[t].pc = "idle"
        /\ threads' = [threads EXCEPT ![t] =
                          [pc |-> "called", self |-> host[1], action |-> c.action,
                           params |-> c.params, locals |-> NoHandler, ret |-> NoResult]]
        /\ UNCHANGED <<registry, params, call, result, handler, lock, heap, host>>

\* the match on the action name and the extraction of the arm's arguments:
\* an unknown name or a failed extraction returns at once
ThreadDispatches(t) ==
    /\ threads[t].pc = "called"
    /\ heap[threads[t].self].live
    /\ LET r == Dispatch[threads[t].action, CallParams(t)] IN
       threads' = [threads EXCEPT ![t] =
                      IF r.handler.ran
                      THEN [@ EXCEPT !.pc = "handler", !.locals = r.handler]
                      ELSE [@ EXCEPT !.pc = "returned", !.ret = r.res]]
    /\ UNCHANGED <<registry, params, call, result, handler, lock, heap, host>>

\* the handler runs on the extracted arguments and the call returns
ThreadRunsHandler(t) ==
    /\ threads[t].pc = "handler"
    /\ heap[threads[t].self].live
    /\ threads' = [threads EXCEPT ![t] =
                      [@ EXCEPT !.pc = "returned",
                                !.ret = HandlerRuns[threads[t].locals]]]
    /\ UNCHANGED <<registry, params, call, result, handler, lock, heap, host>>

InitConcurrent ==
    /\ registry = EmptyRegistry
    /\ params = <<>>
    /\ call = NoCall
    /\ result = NoResult
    /\ handler = NoHandler
    /\ threads = [t \in Threads |-> Idle]
    /\ lock = Unlocked
    /\ heap = OneInstance
    /\ host = <<1>>

NextConcurrent ==
    \E t \in Threads :
        \/ ThreadCalls(t)
        \/ ThreadDispatches(t)
        \/ ThreadRunsHandler(t)

\* a thread inside a call keeps running: nothing in execute_action blocks
SpecConcurrent ==
    /\ InitConcurrent
    /\ [][NextConcurrent]_vars
    /\ \A t \in Threads : WF_vars(ThreadDispatches(t) \/ ThreadRunsHandler(t))

\* C16: with up to MaxThreads calls of execute_action in progress at once on
\* one instance, under every interleaving, every call that was made returns,
\* and returns what execute_action returns for its action and argument map
\* when run alone; the instance is left as it was constructed.
C16_Concurrent ==
    /\ [](\A t \in Threads :
             threads[t].pc = "returned" =>
                 threads[t].ret =
                     MockExtension_execute_action(threads[t].action, threads[t].params).res)
    /\ [](heap = OneInstance)
    /\ \A t \in Threads : (threads[t].pc = "called") ~> (threads[t].pc = "returned")

\* all the threads have returned from calls of different actions, made
\* while the others were in progress, one with Ok and one with Err
C16_Witness ==
    /\ \A t \in Threads : threads[t].pc = "returned"
    /\ \A t, u \in Threads : t /= u => threads[t].action /= threads[u].action
    /\ \E t \in Threads :
          /\ threads[t].action = "test_with_params"
          /\ threads[t].ret.ok
          /\ threads[t].ret.val.fields.message = JString("Hello, World! Count: 123")
    /\ \E t \in Threads : threads[t].action = "test_error" /\ ~threads[t].ret.ok

(***************************************************************************)
(* The entry point register_extension! generates:                          *)
(*     let extension = Box::new(<$ext_type>::new());                       *)
(*     Box::into_raw(extension)                                            *)
(* A heap cell is live or not, is owned by the provider (a Box that its    *)
(* scope will drop) or by the host (a raw pointer), and records who freed  *)
(* it.  The allocator hands out any address that is not live, a freed one  *)
(* included.  The host calls get_extension and releases what it holds.     *)
(***************************************************************************)
Addresses == 1..(MaxInstances + 1)

NoCell == [live |-> FALSE, owner |-> "none", freed_by |-> "none", object |-> <<>>]

\* Box::new(object): a Box, owned by the caller, at any address not in use
Box_new(h, object) ==
    { [heap |-> [h EXCEPT ![a] = [live |-> TRUE, owner |-> "provider",
                                  freed_by |-> "none", object |-> object]],
       ptr |-> a] : a \in { x \in Addresses : ~h[x].live } }

\* as Box_into_raw, for Box::as_mut_ptr: the pointer without the ownership
Box_as_mut_ptr(h, a) == h

\* Box::into_raw(b): the Box is consumed without running its destructor;
\* whoever receives the raw pointer owns the allocation
Box_into_raw(h, a) == [h EXCEPT ![a].owner = "host"]

\* the end of the provider function's scope: every Box it still owns is dropped
drop_locals(h) ==
    [a \in DOMAIN h |->
        IF h[a].live /\ h[a].owner = "provider"
        THEN [h[a] EXCEPT !.live = FALSE, !.owner = "none", !.freed_by = "provider"]
        ELSE h[a]]

\* get_extension(): the heap it leaves and the pointer it returns
get_extension(h) ==
    { [heap |-> drop_locals(Box_into_raw(b.heap, b.ptr)), ptr |-> b.ptr] :
          b \in Box_new(h, MockExtension_new) }

\* the host calls the entry point and keeps the pointer
GetExtension ==
    \E r \in get_extension(heap) :
        /\ Len(host) < MaxInstances
        /\ heap' = r.heap
        /\ host' = Append(host, r.ptr)
        /\ UNCHANGED <<registry, params, call, result, handler, threads, lock>>

\* the host releases an instance it holds (drop(Box::from_raw(ptr)))
HostReleases ==
    \E i \in 1..Len(host) :
        /\ heap' = [heap EXCEPT ![host[i]] =
                        [@ EXCEPT !.live = FALSE, !.owner = "none", !.freed_by = "host"]]
        /\ host' = [j \in 1..(Len(host) - 1) |-> IF j < i THEN host[j] ELSE host[j + 1]]
        /\ UNCHANGED <<registry, params, call, result, handler, threads, lock>>

InitLoading ==
    /\ registry = EmptyRegistry
    /\ params = <<>>
    /\ call = NoCall
    /\ result = NoResult
    /\ handler = NoHandler
    /\ threads = NoThreads
    /\ lock = Unlocked
    /\ heap = [a \in Addresses |-> NoCell]
    /\ host = NoPointers

NextLoading ==
    \/ GetExtension
    \/ HostReleases

SpecLoading == InitLoading /\ [][NextLoading]_vars

\* C17: after any sequence of get_extension calls and host releases, every
\* pointer the host holds refers to a live, fully constructed instance that
\* the host owns, no two of them are the same allocation, the provider owns
\* no allocation once a call has returned, and no allocation was ever freed
\* by the provider.
C17_OwnedByHost ==
    /\ \A i \in 1..Len(host) :
          /\ heap[host[i]].live
          /\ heap[host[i]].owner = "host"
          /\ heap[host[i]].object = MockExtension_new
    /\ \A i, j \in 1..Len(host) : i /= j => host[i] /= host[j]
    /\ \A a \in DOMAIN heap : heap[a].owner /= "provider" /\ heap[a].freed_by /= "provider"
    /\ \A a \in DOMAIN heap : heap[a].live => \E i \in 1..Len(host) : host[i] = a

\* the host holds MaxInstances instances, got from get_extension calls made
\* before and after it released another one
C17_Witness ==
    /\ Len(host) = MaxInstances
    /\ \A i \in 1..Len(host) : heap[host[i]].live /\ heap[host[i]].owner = "host"
    /\ \E a \in DOMAIN heap : heap[a].freed_by = "host" /\ ~heap[a].live

(***************************************************************************)
(* The response helpers, applied to payloads built from the argument map   *)
(* and to the messages the library produces.                               *)
(***************************************************************************)
\* the payloads: none, the whole map as an object, each value of the map
Payloads(map) ==
    {None, Some(JObject(map))} \cup { Some(map[k]) : k \in DOMAIN map }

Messages ==
    {"", "This action failed intentionally", "Unknown action: nope"}
        \cup { NotProvided(k) : k \in ValidationKeys }
        \cup { MustBe(k, "a string") : k \in ValidationKeys }

ResponseSuccess ==
    \E data \in Payloads(params) :
        /\ call = NoCall
        /\ call' = [op |-> "success", data |-> data]
        /\ result' = success(data)
        /\ UNCHANGED <<registry, params, handler, threads, lock, heap, host>>

ResponseBoolResult ==
    \E b \in BOOLEAN :
        /\ call = NoCall
        /\ call' = [op |-> "bool_result", result |-> b]
        /\ result' = bool_result(b)
        /\ UNCHANGED <<registry, params, handler, threads, lock, heap, host>>

ResponseError ==
    \E message \in Messages :
        /\ call = NoCall
        /\ call' = [op |-> "error", message |-> message]
        /\ result' = error(message)
        /\ UNCHANGED <<registry, params, handler, threads, lock, heap, host>>

NextResponse ==
    \/ ResponseSuccess
    \/ ResponseBoolResult
    \/ ResponseError
    \/ HostTakesResult

SpecResponse == InitValidation /\ [][NextResponse]_vars

\* C18: success(Some(v)) is an object with exactly the keys success = true
\* and data = v; success(None) is an object with the one key success = true;
\* bool_result(b) is an object with exactly success = true and result = b;
\* error(m) is an object with exactly success = false and error = m.
C18_Envelopes ==
    /\ call.op \in {"success", "bool_result", "error"} => result.t = "Object"
    /\ (call.op = "success" /\ call.data.some) =>
          /\ DOMAIN result.fields = {"success", "data"}
          /\ result.fields.success = JBool(TRUE)
          /\ result.fields.data = call.data.val
    /\ (call.op = "success" /\ ~call.data.some) =>
          /\ DOMAIN result.fields = {"success"}
          /\ result.fields.success = JBool(TRUE)
    /\ call.op = "bool_result" =>
          /\ DOMAIN result.fields = {"success", "result"}
          /\ result.fields.success = JBool(TRUE)
          /\ result.fields.result = JBool(call.result)
    /\ call.op = "error" =>
          /\ DOMAIN result.fields = {"success", "error"}
          /\ result.fields.success = JBool(FALSE)
          /\ result.fields.error = JString(call.message)

\* success(Some(null)): the data key is there and holds null
C18_Witness ==
    /\ call.op = "success"
    /\ call.data = Some(JNull)
    /\ result = JObject([success |-> JBool(TRUE), data |-> JNull])
    /\ result /= success(None)

(***************************************************************************)
(* The generated list_actions and get_action_definition, called by         *)
(* MaxThreads host threads at once.  ACTION_REGISTRY is one                *)
(* RwLock<HashMap> for the process (lazy_static: created empty, once).     *)
(*   initialize_action_registry:                                           *)
(*       let mut registry = ACTION_REGISTRY.write().unwrap();              *)
(*       if !registry.is_empty() { return; }                               *)
(*       registry.insert("test_install".to_string(), ..);                  *)
(*   then ACTION_REGISTRY.read().unwrap().keys() / .get(action)            *)
(* A lock guard is released when it goes out of scope: the write guard at  *)
(* either return, the read guard at the end of its statement.  No thread   *)
(* panics while it holds the lock, so the lock is never poisoned and the   *)
(* unwrap()s succeed.                                                      *)
(***************************************************************************)
RegistryCalls ==
    { [op |-> "list_actions", action |-> ""],
      [op |-> "get_action_definition", action |-> "test_install"],
      [op |-> "get_action_definition", action |-> "nope"] }

Outside == [pc |-> "idle", op |-> "", action |-> "", ret |-> NoResult, inserts |-> 0]

\* HashMap::is_empty
is_empty(map) == DOMAIN map = {}

\* HashMap::insert
insert(map, k, v) == [x \in DOMAIN map \cup {k} |-> IF x = k THEN v ELSE map[x]]

\* as write_available, were the lock not exclusive
write_available_always(l) == TRUE

\* RwLock::write returns once there is no writer and no reader
write_available(l) == l.writer = 0 /\ l.readers = {}

\* RwLock::read returns once there is no writer
read_available(l) == l.writer = 0

\* thread t calls list_actions() or get_action_definition(action), which
\* starts with initialize_action_registry()
RegistryCall(t) ==
    \E c \in RegistryCalls :
        /\ threads[t].pc = "idle"
        /\ threads' = [threads EXCEPT ![t] =
                          [@ EXCEPT !.pc = "write", !.op = c.op, !.action = c.action,
                                    !.ret = NoResult]]
        /\ UNCHANGED <<registry, params, call, result, handler, lock, heap, host>>

\* ACTION_REGISTRY.write().unwrap()
AcquireWrite(t) ==
    /\ threads[t].pc = "write"
    /\ write_available(lock)
    /\ lock' = [lock EXCEPT !.writer = t]
    /\ threads' = [threads EXCEPT ![t].pc = "is_empty"]
    /\ UNCHANGED <<registry, params, call, result, handler, heap, host>>

\* if !registry.is_empty() { return; }
CheckEmpty(t) ==
    /\ threads[t].pc = "is_empty"
    /\ threads' = [threads EXCEPT ![t].pc =
                      IF is_empty(registry) THEN "insert" ELSE "unlock"]
    /\ UNCHANGED <<registry, params, call, result, handler, lock, heap, host>>

\* registry.insert("test_install".to_string(), test_install_metadata())
Insert(t) ==
    /\ threads[t].pc = "insert"
    /\ registry' = insert(registry, "test_install", test_install_metadata)
    /\ threads' = [threads EXCEPT ![t] = [@ EXCEPT !.pc = "unlock", !.inserts = @ + 1]]
    /\ UNCHANGED <<params, call, result, handler, lock, heap, host>>

\* initialize_action_registry returns: the write guard is dropped
ReleaseWrite(t) ==
    /\ threads[t].pc = "unlock"
    /\ lock' = [lock EXCEPT !.writer = 0]
    /\ threads' = [threads EXCEPT ![t].pc = "read"]
    /\ UNCHANGED <<registry, params, call, result, handler, heap, host>>

\* ACTION_REGISTRY.read().unwrap()
AcquireRead(t) ==
    /\ threads[t].pc = "read"
    /\ read_available(lock)
    /\ lock' = [lock EXCEPT !.readers = @ \cup {t}]
    /\ threads' = [threads EXCEPT ![t].pc = "reading"]
    /\ UNCHANGED <<registry, params, call, result, handler, heap, host>>

\* .keys().cloned().collect()  or  .get(action).cloned()
ReadRegistry(t) ==
    \E names \in KeyOrders(registry) :
        /\ threads[t].pc = "reading"
        /\ threads' = [threads EXCEPT ![t] =
                          [@ EXCEPT !.pc = "read_unlock",
                                    !.ret = IF threads[t].op = "list_actions" THEN names
                                            ELSE get(registry, threads[t].action)]]
        /\ UNCHANGED <<registry, params, call, result, handler, lock, heap, host>>

\* the end of the statement: the read guard is dropped and the call returns
ReleaseRead(t) ==
    /\ threads[t].pc = "read_unlock"
    /\ lock' = [lock EXCEPT !.readers = @ \ {t}]
    /\ threads' = [threads EXCEPT ![t].pc = "returned"]
    /\ UNCHANGED <<registry, params, call, result, handler, heap, host>>

\* the host thread takes the returned value and may call again
ThreadTakesResult(t) ==
    /\ threads[t].pc = "returned"
    /\ threads' = [threads EXCEPT ![t] = [Outside EXCEPT !.inserts = threads[t].inserts]]
    /\ UNCHANGED <<registry, params, call, result, handler, lock, heap, host>>

InitRegistry ==
    /\ registry = EmptyRegistry
    /\ params = <<>>
    /\ call = NoCall
    /\ result = NoResult
    /\ handler = NoHandler
    /\ threads = [t \in Threads |-> Outside]
    /\ lock = Unlocked
    /\ heap = OneInstance
    /\ host = <<1>>

NextRegistry ==
    \E t \in Threads :
        \/ RegistryCall(t)
        \/ AcquireWrite(t)
        \/ CheckEmpty(t)
        \/ Insert(t)
        \/ ReleaseWrite(t)
        \/ AcquireRead(t)
        \/ ReadRegistry(t)
        \/ ReleaseRead(t)
        \/ ThreadTakesResult(t)

SpecRegistry == InitRegistry /\ [][NextRegistry]_vars

RECURSIVE SumInserts(_)
SumInserts(t) == IF t = 0 THEN 0 ELSE threads[t].inserts + SumInserts(t - 1)

\* the insertions made so far, by all the threads
Inserts == SumInserts(MaxThreads)

\* C19: under every interleaving of list_actions and get_action_definition
\* calls, racing first calls included: the entries are inserted at most
\* once, and exactly once as soon as one initialize_action_registry has
\* passed its check; a thread reads the registry only when it is fully
\* initialised and no writer holds the lock, and returns the answer of the
\* initialised registry; once initialised, the registry never changes.
C19_InitialisedOnce ==
    /\ [](/\ Inserts <= 1
          /\ registry \in {EmptyRegistry, Initialised}
          /\ (registry = Initialised) <=> (Inserts = 1)
          /\ \A t \in Threads :
                /\ threads[t].pc \in {"unlock", "read", "reading", "read_unlock", "returned"}
                      => registry = Initialised
                /\ threads[t].pc \in {"reading", "read_unlock"}
                      => lock.writer = 0 /\ t \in lock.readers
                /\ threads[t].pc \in {"is_empty", "insert", "unlock"}
                      => lock.writer = t /\ lock.readers = {}
                /\ threads[t].pc \in {"read_unlock", "returned"} =>
                      threads[t].ret =
                          IF threads[t].op = "list_actions" THEN Vec(<<"test_install">>)
                          ELSE get(Initialised, threads[t].action))
    /\ [][registry /= EmptyRegistry => registry' = registry]_vars

\* two first calls raced: one thread inserted, another found the registry
\* filled when it got the write lock, and both have read it
C19_Witness ==
    /\ Inserts = 1
    /\ \E t, u \in Threads :
          /\ t /= u
          /\ threads[t].inserts = 1
          /\ threads[t].pc = "returned"
          /\ threads[u].inserts = 0
          /\ threads[u].pc = "returned"
          /\ threads[u].ret = Vec(<<"test_install">>)
    /\ \E v \in Threads : threads[v].pc = "write"

====
